---- MODULE Spec2Model ----
(***************************************************************************)
(* Model of publicAPI/crest_endpoint.py: the two flask_restful resources   *)
(* OHLC_endpoint and ProphetEndpoint, their request parsers, and the URL   *)
(* rules that register them.  One request is followed from the moment the  *)
(* framework hands it to a handler to the moment the handler returns a     *)
(* value or lets an exception propagate.  The collaborators that live in   *)
(* other modules (crest_utils, forecast_utils, exceptions) are called      *)
(* through their interface: every call either returns or raises, and the   *)
(* model draws that outcome nondeterministically.  What happens when the   *)
(* module is imported (the default argument DEFAULT_LOGGER of              *)
(* collect_stats, the name APP in output_csv) is outside the model.        *)
(***************************************************************************)
EXTENDS Integers, Sequences, FiniteSets

VARIABLES
    pc,      \* pc[r]: position of request r in its handler
    req,     \* req[r]: the HTTP request as the framework received it
    args,    \* args[r]: result of self.reqparse.parse_args()
    data,    \* data[r]: the local variable `data` of get()
    trace,   \* trace[r]: collaborator and LOGGER.warning calls made so far
    resp,    \* resp[r]: (body, status) returned by get()
    exc,     \* exc[r]: exception that propagated out of get()
    exit     \* exit[r]: the statement through which control left get()

vars == <<pc, req, args, data, trace, resp, exc, exit>>

\* Requests followed by the model.  A resource object, with its parser, is
\* constructed per request and get() keeps everything in locals, so every
\* variable is indexed by request.  Spec follows request 1 alone through every
\* combination of inputs; SpecConc has all of them in flight together.
Reqs == {1, 2}

----------------------------------------------------------------------------
\* Program constants

\* CONFIG.get('CREST', 'prophet_range') and CONFIG.get('CREST', 'prophet_max');
\* the values are those shipped in publicAPI.cfg.
DEFAULT_RANGE == 60

MAX_RANGE == 180

\* AcceptedDataFormat members, lower-cased: keys of the enum without '_'.
return_supported_types == {"csv", "json"}

\* URL rule variables of the two add_resource calls: both rules end in
\* '.<return_type>', so the framework calls get(return_type=...).
RouteViewArgs == {"return_type"}

\* Parameters declared by each get() besides self:
\* OHLC_endpoint.get(self, return_type), ProphetEndpoint.get(self).
GetParams(path) == IF path = "OHLC" THEN {"return_type"} ELSE {}

\* Python call binding: a keyword the function does not declare, or a declared
\* parameter left without a value, is a TypeError raised before the body runs.
CallBinds(path, view_args) == view_args = GetParams(path)

\* Names the body of get() can read: its parameters (the module defines no
\* global called return_type).
NameBound(path, name) == name \in GetParams(path)

\* add_argument(...) declarations in declaration order, with required= .
ParserArgs(path) ==
    IF path = "OHLC"
    THEN << [name |-> "regionID",   required |-> TRUE,  help |-> "regionid for market history API"],
            [name |-> "typeID",     required |-> TRUE,  help |-> "typeid for market history API"],
            [name |-> "User-Agent", required |-> TRUE,  help |-> "User-Agent required"],
            [name |-> "api",        required |-> FALSE, help |-> "API key for tracking requests"] >>
    ELSE << [name |-> "regionID",   required |-> TRUE,  help |-> "regionid for market history API"],
            [name |-> "typeID",     required |-> TRUE,  help |-> "typeid for market history API"],
            [name |-> "User-Agent", required |-> TRUE,  help |-> "User-Agent required"],
            [name |-> "api",        required |-> TRUE,  help |-> "API key for tracking requests"],
            [name |-> "range",      required |-> FALSE, help |-> "Range for forecasting"] >>

----------------------------------------------------------------------------
\* Input domains

Paths == {"OHLC", "prophet"}

Formats == {"csv", "json", "xml"}

ParamNames == {"regionID", "typeID", "User-Agent", "api"}

RegionIDs == {10000002, 10000043}

TypeIDs == {34}

\* 0 stands for "no range parameter supplied".
NoRange == 0

RangeValues == {NoRange, DEFAULT_RANGE - 1, DEFAULT_RANGE, MAX_RANGE + 1}

----------------------------------------------------------------------------
\* Values

NoSeries == [source |-> "none", observed |-> 0, predicted |-> 0]

\* Number of points of a non-empty upstream history.
HistoryLen == 2

Series(src, n) == [source |-> src, observed |-> n, predicted |-> 0]

NoError == [cls |-> "none", status |-> 0, message |-> ""]

\* Exceptions a collaborator can raise: members of the ValidatorException
\* family carry .message and .status, anything else is a plain Exception.
ValidatorErrors ==
    { [cls |-> "ValidatorException", status |-> 404, message |-> "id not found"],
      [cls |-> "ValidatorException", status |-> 400, message |-> "bad request"] }

OtherErrors == { [cls |-> "Exception", status |-> 0, message |-> "upstream detail"] }

Errors == ValidatorErrors \cup OtherErrors

Returned(v) == [ok |-> TRUE, err |-> NoError, value |-> v]

Raised(e) == [ok |-> FALSE, err |-> e, value |-> NoSeries]

NoBody == [text |-> "", fmt |-> "", payload |-> NoSeries]

NoResp == [status |-> 0, body |-> NoBody]

TextBody(m) == [text |-> m, fmt |-> "", payload |-> NoSeries]

NoArgs == [regionID |-> 0, typeID |-> 0, range |-> NoRange, api |-> FALSE]

\* One entry of trace[r]: a collaborator call with its arguments and outcome.
Call(fn, catalog, ids, horizon, fmt, input, out) ==
    [fn |-> fn, catalog |-> catalog, ids |-> ids, horizon |-> horizon,
     fmt |-> fmt, input |-> input, out |-> out, msg |-> ""]

\* One entry of trace[r]: LOGGER.warning(msg, exc_info=True).
Warn(msg) ==
    [fn |-> "LOGGER.warning", catalog |-> "", ids |-> << >>, horizon |-> 0,
     fmt |-> "", input |-> NoSeries, out |-> Returned(NoSeries), msg |-> msg]

TypeError == [cls |-> "TypeError", status |-> 0, message |-> "unexpected keyword argument"]

NameError == [cls |-> "NameError", status |-> 0, message |-> "name 'return_type' is not defined"]

UnsupportedFormat == [cls |-> "UnsupportedFormat", status |-> 405, message |-> "unsupported format"]

----------------------------------------------------------------------------
\* Collaborator interfaces: what a call can come back with

\* crest_utils.validate_id(catalog, id, ...): returns nothing or raises.
ValidateOutcomes == {Returned(NoSeries)} \cup {Raised(e) : e \in Errors}

\* An adapter that hands an empty upstream result back to its caller.
FetchedSeries_MayBeEmpty(src) == {Series(src, 0), Series(src, HistoryLen)}

\* What a data-source adapter returns when it returns: a successfully parsed
\* but empty upstream result is raised by the adapter, not returned.
FetchedSeries(src) == {Series(src, HistoryLen)}

\* crest_utils.fetch_market_history / forecast_utils.fetch_extended_history:
\* returns a history or raises.
FetchOutcomes(src) ==
    {Returned(s) : s \in FetchedSeries(src)} \cup {Raised(e) : e \in Errors}

\* forecast_utils.build_forecast(data, forecast_range): the history extended
\* by forecast_range predicted points, or raises.
BuildOutcomes(series, horizon) ==
    {Returned([series EXCEPT !.predicted = horizon])} \cup {Raised(e) : e \in OtherErrors}

\* crest_utils.OHLC_to_format / forecast_utils.data_to_format: renders the
\* series, or raises; a format outside the supported set always raises.
FormatOutcomes(series, fmt) ==
    IF fmt \in return_supported_types
    THEN {Returned(series)} \cup {Raised(e) : e \in OtherErrors}
    ELSE {Raised(UnsupportedFormat)}

Formatted(series, fmt) == [text |-> "", fmt |-> fmt, payload |-> series]

----------------------------------------------------------------------------
\* Pieces of the handlers

\* reqparse.parse_args(): index of the first declared argument that is
\* required and absent from the request, 0 when there is none.
RECURSIVE FirstMissingFrom(_, _, _)
FirstMissingFrom(decls, present, i) ==
    IF i > Len(decls) THEN 0
    ELSE IF decls[i].required /\ decls[i].name \notin present THEN i
    ELSE FirstMissingFrom(decls, present, i + 1)

FirstMissing(path, present) == FirstMissingFrom(ParserArgs(path), present, 1)

\* An except-branch that answers 500 with the text of whatever was raised.
ErrorResponse_Leak(err) ==
    IF err.cls = "ValidatorException"
    THEN [status |-> err.status, body |-> TextBody(err.message)]
    ELSE [status |-> 500, body |-> TextBody(err.message)]

\* The except-branches of the validation and OHLC fetch steps:
\*   if isinstance(err, exceptions.ValidatorException):
\*       return err.message, err.status
\*   else:
\*       return 'UNHANDLED EXCEPTION', 500
ErrorResponse(err) ==
    IF err.cls = "ValidatorException"
    THEN [status |-> err.status, body |-> TextBody(err.message)]
    ELSE [status |-> 500, body |-> TextBody("UNHANDLED EXCEPTION")]

\* A handler that forecasts over the range the request asked for.
forecast_range_FromArgs(parsed) ==
    IF parsed.range # NoRange THEN parsed.range ELSE DEFAULT_RANGE

\* forecast_range = DEFAULT_RANGE: the parsed 'range' argument is not read
\* ("#TODO: validate range").
forecast_range(parsed) == DEFAULT_RANGE

\* A handler whose fetch step was left out.
FetchStep_Skipped(path) == IF path = "OHLC" THEN "FormatOHLC" ELSE "BuildingForecast"

\* First statement after the validation try-block of each handler.
FetchStep(path) == IF path = "OHLC" THEN "FetchMarket" ELSE "FetchArchive"

\* A validation except-branch that logs and falls through.
AfterValidate_NoReturn(out, next) == next

\* Where control goes after a validate_id call inside the try-block.
AfterValidate(out, next) == IF out.ok THEN next ELSE "Failed"

\* An OHLC except-branch that falls back to the archive like the forecast one.
AfterMarketFetch_Fallback(out) == IF out.ok THEN "FormatOHLC" ELSE "FetchArchive"

\* Where control goes after the OHLC fetch_market_history call.
AfterMarketFetch(out) == IF out.ok THEN "FormatOHLC" ELSE "Failed"

\* An except-branch that drops the archive failure without logging it.
LogArchiveFailure_Silent(tr) == tr

\* LOGGER.warning('Unable to fetch data from archive', exc_info=True): the
\* first statement of the archive except-branch.
LogArchiveFailure(tr) == Append(tr, Warn("Unable to fetch data from archive"))

\* A handler that calls the market source whatever the archive answered.
AfterArchiveFetch_Always(out) == "FetchFallback"

\* Where control goes after fetch_extended_history: the except-branch logs
\* and calls fetch_market_history.
AfterArchiveFetch(out) == IF out.ok THEN "BuildingForecast" ELSE "FetchFallback"

----------------------------------------------------------------------------
\* State machine

NoRequest ==
    [path |-> "none", view_args |-> {}, fmt |-> "", present |-> {},
     regionID |-> 0, typeID |-> 0, range |-> NoRange]

Init ==
    /\ pc = [r \in Reqs |-> "Idle"]
    /\ req = [r \in Reqs |-> NoRequest]
    /\ args = [r \in Reqs |-> NoArgs]
    /\ data = [r \in Reqs |-> NoSeries]
    /\ trace = [r \in Reqs |-> << >>]
    /\ resp = [r \in Reqs |-> NoResp]
    /\ exc = [r \in Reqs |-> NoError]
    /\ exit = [r \in Reqs |-> "none"]

\* get() returns (body, status) through the statement named by `how`.
Return(r, how, response) ==
    /\ resp' = [resp EXCEPT ![r] = response]
    /\ exit' = [exit EXCEPT ![r] = how]
    /\ exc' = exc

\* An exception leaves get() from the statement named by `how`.
Propagate(r, how, err) ==
    /\ exc' = [exc EXCEPT ![r] = err]
    /\ exit' = [exit EXCEPT ![r] = how]
    /\ resp' = resp

\* get() goes on to its next statement.
Continue == UNCHANGED <<resp, exc, exit>>

\* A request arrives.  It is handed to get() either by the URL rule, with the
\* rule's variables as keyword arguments, or by a caller that uses the
\* signature get() declares.  The OHLC parser declares no 'range' argument,
\* so only forecast requests carry one.
ReceiveFrom(r, formats, presents, ranges) ==
    /\ pc[r] = "Idle"
    /\ \E path \in Paths, fmt \in formats, present \in presents,
          region \in RegionIDs, type \in TypeIDs, range \in ranges :
          \E view_args \in {RouteViewArgs, GetParams(path)} :
            /\ path = "OHLC" => range = NoRange
            /\ req' = [req EXCEPT ![r] =
                           [path |-> path, view_args |-> view_args, fmt |-> fmt,
                            present |-> present, regionID |-> region,
                            typeID |-> type, range |-> range]]
    /\ pc' = [pc EXCEPT ![r] = "Dispatch"]
    /\ UNCHANGED <<args, data, trace, resp, exc, exit>>

\* Any request: every format, every subset of the parameters, every range.
Receive(r) == ReceiveFrom(r, Formats, SUBSET ParamNames, RangeValues)

\* A request that carries every declared parameter and no range.
ReceiveConc(r) == ReceiveFrom(r, Formats, {ParamNames}, {NoRange})

\* The framework calls get(**view_args).
Dispatch(r) ==
    /\ pc[r] = "Dispatch"
    /\ IF CallBinds(req[r].path, req[r].view_args)
       THEN /\ pc' = [pc EXCEPT ![r] = "ParsingParams"]
            /\ Continue
       ELSE /\ pc' = [pc EXCEPT ![r] = "Raised"]
            /\ Propagate(r, "call", TypeError)
    /\ UNCHANGED <<req, args, data, trace>>

\* A parser result kept in one place for all requests: each parse_args()
\* overwrites what every handler reads as args.
ParseArgs_Shared(r) ==
    /\ pc[r] = "ParsingParams"
    /\ LET m == FirstMissing(req[r].path, req[r].present)
       IN IF m # 0
          THEN /\ pc' = [pc EXCEPT ![r] = "Failed"]
               /\ Return(r, "parse_args",
                         [status |-> 400,
                          body |-> TextBody(ParserArgs(req[r].path)[m].help)])
               /\ args' = args
          ELSE /\ pc' = [pc EXCEPT ![r] = "ValidateRegion"]
               /\ Continue
               /\ args' = [q \in Reqs |->
                               [regionID |-> req[r].regionID,
                                typeID |-> req[r].typeID,
                                range |-> req[r].range,
                                api |-> "api" \in req[r].present]]
    /\ UNCHANGED <<req, data, trace>>

\* args = self.reqparse.parse_args(): aborts with 400 and the help text of the
\* first required argument that is missing.
ParseArgs(r) ==
    /\ pc[r] = "ParsingParams"
    /\ LET m == FirstMissing(req[r].path, req[r].present)
       IN IF m # 0
          THEN /\ pc' = [pc EXCEPT ![r] = "Failed"]
               /\ Return(r, "parse_args",
                         [status |-> 400,
                          body |-> TextBody(ParserArgs(req[r].path)[m].help)])
               /\ args' = args
          ELSE /\ pc' = [pc EXCEPT ![r] = "ValidateRegion"]
               /\ Continue
               /\ args' = [args EXCEPT ![r] =
                               [regionID |-> req[r].regionID,
                                typeID |-> req[r].typeID,
                                range |-> req[r].range,
                                api |-> "api" \in req[r].present]]
    /\ UNCHANGED <<req, data, trace>>

\* One validate_id call of the try-block, with its except-branch.
Validate(r, at, catalog, id, next) ==
    /\ pc[r] = at
    /\ \E out \in ValidateOutcomes :
         LET call == Call("validate_id", catalog, <<id>>, 0, "", NoSeries, out)
         IN /\ pc' = [pc EXCEPT ![r] = AfterValidate(out, next)]
            /\ IF out.ok
               THEN /\ trace' = [trace EXCEPT ![r] = Append(@, call)]
                    /\ Continue
               ELSE /\ trace' = [trace EXCEPT ![r] =
                                    Append(Append(@, call),
                                           Warn("ERROR: unable to validate type/region ids"))]
                    /\ Return(r, "validate", ErrorResponse(out.err))
    /\ UNCHANGED <<req, args, data>>

\* A try-block that validates the type id first.
ValidateRegion_TypeFirst(r) ==
    Validate(r, "ValidateRegion", "inventory_types", args[r].typeID, "ValidateType")

ValidateRegion(r) ==
    Validate(r, "ValidateRegion", "map_regions", args[r].regionID, "ValidateType")

\* A try-block that validates the region id against both catalogs.
ValidateType_RegionId(r) ==
    Validate(r, "ValidateType", "inventory_types", args[r].regionID,
             FetchStep(req[r].path))

ValidateType(r) ==
    Validate(r, "ValidateType", "inventory_types", args[r].typeID,
             FetchStep(req[r].path))

\* OHLC: data = crest_utils.fetch_market_history(...), with its except-branch.
FetchMarket(r) ==
    /\ pc[r] = "FetchMarket"
    /\ \E out \in FetchOutcomes("market") :
         LET call == Call("fetch_market_history", "",
                          <<args[r].regionID, args[r].typeID>>, 0, "", NoSeries, out)
         IN /\ pc' = [pc EXCEPT ![r] = AfterMarketFetch(out)]
            /\ IF out.ok
               THEN /\ trace' = [trace EXCEPT ![r] = Append(@, call)]
                    /\ data' = [data EXCEPT ![r] = out.value]
                    /\ Continue
               ELSE /\ trace' = [trace EXCEPT ![r] =
                                    Append(Append(@, call),
                                           Warn("ERROR: unable to parse CREST data"))]
                    /\ data' = data
                    /\ Return(r, "fetch", ErrorResponse(out.err))
    /\ UNCHANGED <<req, args>>

\* OHLC: message = crest_utils.OHLC_to_format(data, return_type); return message
FormatOHLC(r) ==
    /\ pc[r] = "FormatOHLC"
    /\ \E out \in FormatOutcomes(data[r], req[r].fmt) :
         LET call == Call("OHLC_to_format", "", << >>, 0, req[r].fmt, data[r], out)
         IN /\ trace' = [trace EXCEPT ![r] = Append(@, call)]
            /\ IF out.ok
               THEN /\ pc' = [pc EXCEPT ![r] = "Responded"]
                    /\ Return(r, "return",
                              [status |-> 200, body |-> Formatted(out.value, req[r].fmt)])
               ELSE /\ pc' = [pc EXCEPT ![r] = "Raised"]
                    /\ Propagate(r, "format", out.err)
    /\ UNCHANGED <<req, args, data>>

\* Forecast: data = forecast_utils.fetch_extended_history(regionID, typeID);
\* the except-branch logs a warning and goes on to the market source.
FetchArchive(r) ==
    /\ pc[r] = "FetchArchive"
    /\ \E out \in FetchOutcomes("archive") :
         LET call == Call("fetch_extended_history", "",
                          <<args[r].regionID, args[r].typeID>>, 0, "", NoSeries, out)
         IN /\ pc' = [pc EXCEPT ![r] = AfterArchiveFetch(out)]
            /\ IF out.ok
               THEN /\ trace' = [trace EXCEPT ![r] = Append(@, call)]
                    /\ data' = [data EXCEPT ![r] = out.value]
               ELSE /\ trace' = [trace EXCEPT ![r] = LogArchiveFailure(Append(@, call))]
                    /\ data' = data
    /\ Continue
    /\ UNCHANGED <<req, args>>

\* Forecast, inside the except-branch:
\* data = crest_utils.fetch_market_history(regionID, typeID).  Nothing
\* encloses this call, so what it raises leaves get().
FetchFallback(r) ==
    /\ pc[r] = "FetchFallback"
    /\ \E out \in FetchOutcomes("market") :
         LET call == Call("fetch_market_history", "",
                          <<args[r].regionID, args[r].typeID>>, 0, "", NoSeries, out)
         IN /\ trace' = [trace EXCEPT ![r] = Append(@, call)]
            /\ IF out.ok
               THEN /\ pc' = [pc EXCEPT ![r] = "BuildingForecast"]
                    /\ data' = [data EXCEPT ![r] = out.value]
                    /\ Continue
               ELSE /\ pc' = [pc EXCEPT ![r] = "Raised"]
                    /\ data' = data
                    /\ Propagate(r, "fallback", out.err)
    /\ UNCHANGED <<req, args>>

\* Forecast: data = forecast_utils.build_forecast(data, forecast_range).
BuildForecast(r) ==
    /\ pc[r] = "BuildingForecast"
    /\ \E out \in BuildOutcomes(data[r], forecast_range(args[r])) :
         LET call == Call("build_forecast", "", << >>, forecast_range(args[r]),
                          "", data[r], out)
         IN /\ trace' = [trace EXCEPT ![r] = Append(@, call)]
            /\ IF out.ok
               THEN /\ pc' = [pc EXCEPT ![r] = "FormatForecast"]
                    /\ data' = [data EXCEPT ![r] = out.value]
                    /\ Continue
               ELSE /\ pc' = [pc EXCEPT ![r] = "Raised"]
                    /\ data' = data
                    /\ Propagate(r, "build", out.err)
    /\ UNCHANGED <<req, args>>

\* Forecast: message = forecast_utils.data_to_format(data, return_type);
\* return message.  The arguments are evaluated before the call, and
\* return_type is read as a name of get().
FormatForecast(r) ==
    /\ pc[r] = "FormatForecast"
    /\ IF NameBound(req[r].path, "return_type")
       THEN \E out \in FormatOutcomes(data[r], req[r].fmt) :
              LET call == Call("data_to_format", "", << >>, 0, req[r].fmt, data[r], out)
              IN /\ trace' = [trace EXCEPT ![r] = Append(@, call)]
                 /\ IF out.ok
                    THEN /\ pc' = [pc EXCEPT ![r] = "Responded"]
                         /\ Return(r, "return",
                                   [status |-> 200,
                                    body |-> Formatted(out.value, req[r].fmt)])
                    ELSE /\ pc' = [pc EXCEPT ![r] = "Raised"]
                         /\ Propagate(r, "format", out.err)
       ELSE /\ trace' = trace
            /\ pc' = [pc EXCEPT ![r] = "Raised"]
            /\ Propagate(r, "format", NameError)
    /\ UNCHANGED <<req, args, data>>

\* One step of request r inside its handler.
Handle(r) ==
    \/ Dispatch(r)
    \/ ParseArgs(r)
    \/ ValidateRegion(r)
    \/ ValidateType(r)
    \/ FetchMarket(r)
    \/ FormatOHLC(r)
    \/ FetchArchive(r)
    \/ FetchFallback(r)
    \/ BuildForecast(r)
    \/ FormatForecast(r)

\* One request, with every combination of inputs and collaborator outcomes.
Next == Receive(1) \/ Handle(1)

Spec == Init /\ [][Next]_vars

\* Several requests in flight, their steps interleaved in any order.
NextConc == \E r \in Reqs : ReceiveConc(r) \/ Handle(r)

SpecConc == Init /\ [][NextConc]_vars

\* The statements of get() that wait for a collaborator doing I/O.
BlockingSteps ==
    {"ValidateRegion", "ValidateType", "FetchMarket", "FetchArchive", "FetchFallback"}

BlockingFn(step) ==
    IF step \in {"ValidateRegion", "ValidateType"} THEN "validate_id"
    ELSE IF step = "FetchArchive" THEN "fetch_extended_history"
    ELSE "fetch_market_history"

\* The outcome of a call that has not come back.
Pending == [ok |-> FALSE, err |-> [cls |-> "pending", status |-> 0, message |-> ""],
            value |-> NoSeries]

\* A blocking collaborator call that never returns.  The handlers pass no
\* timeout and nothing in get() interrupts the call, so the request waits.
Hang(r) ==
    /\ pc[r] \in BlockingSteps
    /\ trace' = [trace EXCEPT ![r] =
                     Append(@, Call(BlockingFn(pc[r]), "", << >>, 0, "", NoSeries, Pending))]
    /\ pc' = [pc EXCEPT ![r] = "Blocked"]
    /\ UNCHANGED <<req, args, data, resp, exc, exit>>

NextLive == Next \/ Hang(1)

\* The worker runs a handler for as long as it has a statement to execute.
SpecLive == Init /\ [][NextLive]_vars /\ WF_vars(Handle(1))

----------------------------------------------------------------------------
\* Vocabulary of the properties

Terminal(r) == pc[r] \in {"Responded", "Failed", "Raised"}

TypeOK ==
    /\ pc \in [Reqs -> {"Idle", "Dispatch", "ParsingParams", "ValidateRegion",
                        "ValidateType", "FetchMarket", "FormatOHLC", "FetchArchive",
                        "FetchFallback", "BuildingForecast", "FormatForecast",
                        "Responded", "Failed", "Raised"}]
    /\ \A r \in Reqs : exit[r] \in {"none", "call", "parse_args", "validate", "fetch",
                                     "fallback", "build", "format", "return"}

Idx(r) == DOMAIN trace[r]

\* Positions in trace[r] of the calls of fn, and of those that raised.
Made(r, fn) == {i \in Idx(r) : trace[r][i].fn = fn}

MadeFailed(r, fn) == {i \in Made(r, fn) : ~trace[r][i].out.ok}

MadeOk(r, fn) == {i \in Made(r, fn) : trace[r][i].out.ok}

DataSourceFns == {"fetch_market_history", "fetch_extended_history"}

CollaboratorFns ==
    DataSourceFns \cup {"validate_id", "build_forecast", "OHLC_to_format", "data_to_format"}

\* validate_id(catalog, id) returned normally somewhere before position i.
ValidatedBefore(r, catalog, id, i) ==
    \E j \in Made(r, "validate_id") :
        /\ j < i
        /\ trace[r][j].catalog = catalog
        /\ trace[r][j].ids = <<id>>
        /\ trace[r][j].out.ok

Is4xx(status) == status >= 400 /\ status < 500

----------------------------------------------------------------------------
\* C1: on both paths, a data-source call (fetch_market_history or
\* fetch_extended_history) appears in a request's trace only after validate_id
\* has returned normally for ('map_regions', regionID) and for
\* ('inventory_types', typeID) in that same request.
C1_ValidatedBeforeFetch ==
    \A r \in Reqs : \A i \in Idx(r) :
        trace[r][i].fn \in DataSourceFns =>
            /\ ValidatedBefore(r, "map_regions", req[r].regionID, i)
            /\ ValidatedBefore(r, "inventory_types", req[r].typeID, i)

\* A forecast request that reached the fallback market fetch.
C1_Witness ==
    \E r \in Reqs :
        /\ req[r].path = "prophet"
        /\ Made(r, "fetch_extended_history") # {}
        /\ Made(r, "fetch_market_history") # {}

----------------------------------------------------------------------------
\* Every collaborator call of the request other than the archive fetch
\* returned normally.
OnlyArchiveFailed(r) ==
    \A i \in Idx(r) :
        (trace[r][i].fn \in CollaboratorFns /\ ~trace[r][i].out.ok)
            => trace[r][i].fn = "fetch_extended_history"

\* C2: on the forecast path, a finished request whose parameters and ids
\* were valid, whose archive fetch raised and whose market fetch returned a
\* series (no other collaborator failing) has ended in Responded, with a
\* forecast built from the market series.
C2_FallbackSucceeds ==
    \A r \in Reqs :
        ( /\ req[r].path = "prophet"
          /\ Terminal(r)
          /\ MadeFailed(r, "fetch_extended_history") # {}
          /\ MadeOk(r, "fetch_market_history") # {}
          /\ OnlyArchiveFailed(r) )
        => /\ pc[r] = "Responded"
           /\ resp[r].status = 200
           /\ resp[r].body.payload.source = "market"

----------------------------------------------------------------------------
\* C3: on the OHLC path fetch_extended_history is never called and
\* fetch_market_history is called at most once; once that call has raised,
\* the request has ended in Failed through the fetch step's except-branch,
\* with a status, and the formatter has not been invoked.
C3_OHLCNoFallback ==
    \A r \in Reqs :
        req[r].path = "OHLC" =>
            /\ Made(r, "fetch_extended_history") = {}
            /\ Cardinality(Made(r, "fetch_market_history")) <= 1
            /\ MadeFailed(r, "fetch_market_history") # {} =>
                  /\ pc[r] = "Failed"
                  /\ exit[r] = "fetch"
                  /\ resp[r].status # 0
                  /\ Made(r, "OHLC_to_format") = {}

\* An OHLC request whose market fetch raised.
C3_Witness ==
    \E r \in Reqs :
        /\ req[r].path = "OHLC"
        /\ MadeFailed(r, "fetch_market_history") # {}
        /\ Terminal(r)

----------------------------------------------------------------------------
\* C4: on the forecast path, once both the archive fetch and the fallback
\* market fetch have raised, the request has ended in Failed, the response
\* carries a status and a message that are those of the market failure,
\* and build_forecast has not been called.
C4_BothFailSurfaced ==
    \A r \in Reqs :
        ( /\ req[r].path = "prophet"
          /\ MadeFailed(r, "fetch_extended_history") # {}
          /\ MadeFailed(r, "fetch_market_history") # {} )
        => /\ pc[r] = "Failed"
           /\ resp[r].status # 0
           /\ resp[r].body # NoBody
           /\ \E i \in MadeFailed(r, "fetch_market_history") :
                 trace[r][i].out.err.cls = "ValidatorException" =>
                     /\ resp[r].status = trace[r][i].out.err.status
                     /\ resp[r].body.text = trace[r][i].out.err.message
           /\ Made(r, "build_forecast") = {}

----------------------------------------------------------------------------
\* C5: every finished request, on either path and whatever its
\* collaborators did, is in exactly one of Responded and Failed, the caller
\* has a status code and a body, and no exception has left get().  Stated
\* for the requests whose get() body ran.
C5_AlwaysAResponse ==
    \A r \in Reqs :
        (Terminal(r) /\ exit[r] # "call") =>
            /\ pc[r] \in {"Responded", "Failed"}
            /\ resp[r].status # 0
            /\ resp[r].body # NoBody
            /\ exc[r] = NoError

----------------------------------------------------------------------------
\* C6: a finished request, on either path, whose URL trailing segment is not
\* a supported format has been answered with a 4xx status, whatever its
\* other parameters and whatever its collaborators did.  Stated for the
\* requests whose get() body ran.
C6_UnsupportedFormatIs4xx ==
    \A r \in Reqs :
        ( /\ Terminal(r)
          /\ exit[r] # "call"
          /\ req[r].fmt \notin return_supported_types )
        => /\ pc[r] = "Failed"
           /\ Is4xx(resp[r].status)

----------------------------------------------------------------------------
OutOfWindow(range) == range # NoRange /\ (range < DEFAULT_RANGE \/ range > MAX_RANGE)

NoCallFailed(r) ==
    \A i \in Idx(r) : trace[r][i].fn \in CollaboratorFns => trace[r][i].out.ok

\* C7: on the forecast path, for a request whose 'range' lies outside
\* [DEFAULT_RANGE, MAX_RANGE], build_forecast is never called, and the
\* request, once finished, has been rejected with a 4xx status.  Stated for
\* the requests whose get() body ran and whose collaborators all answered.
C7_RangeRejected ==
    \A r \in Reqs :
        ( /\ req[r].path = "prophet"
          /\ exit[r] # "call"
          /\ OutOfWindow(req[r].range)
          /\ NoCallFailed(r) )
        => /\ Made(r, "build_forecast") = {}
           /\ Terminal(r) => (pc[r] = "Failed" /\ Is4xx(resp[r].status))

----------------------------------------------------------------------------
\* The failure handled at position i of trace[r]: a validate_id call on
\* either path, or the OHLC path's fetch_market_history call, that raised.
HandledFailure(r, i) ==
    /\ ~trace[r][i].out.ok
    /\ \/ trace[r][i].fn = "validate_id"
       \/ trace[r][i].fn = "fetch_market_history" /\ req[r].path = "OHLC"

\* C8: when validate_id (either path) or the OHLC fetch_market_history
\* raises, the request ends in Failed; a ValidatorException is answered with
\* its own message and status, anything else with status 500 and the body
\* 'UNHANDLED EXCEPTION', which is not the text of what was raised.
C8_ErrorMapping ==
    \A r \in Reqs : \A i \in Idx(r) :
        HandledFailure(r, i) =>
            /\ pc[r] = "Failed"
            /\ exit[r] \in {"validate", "fetch"}
            /\ LET e == trace[r][i].out.err
               IN IF e.cls = "ValidatorException"
                  THEN /\ resp[r].status = e.status
                       /\ resp[r].body.text = e.message
                  ELSE /\ resp[r].status = 500
                       /\ resp[r].body.text = "UNHANDLED EXCEPTION"
                       /\ resp[r].body.text # e.message

\* A forecast request whose validate_id raised something outside the
\* ValidatorException family.
C8_Witness ==
    \E r \in Reqs : \E i \in Idx(r) :
        /\ req[r].path = "prophet"
        /\ HandledFailure(r, i)
        /\ trace[r][i].out.err.cls = "Exception"
        /\ resp[r].status = 500

----------------------------------------------------------------------------
\* The parameters the claim calls required.
RequiredParams(path) ==
    {"regionID", "typeID", "User-Agent"} \cup (IF path = "prophet" THEN {"api"} ELSE {})

\* C9: a received request that lacks a required parameter makes no
\* validator or data-source call and, once finished, has ended in Failed
\* through parse_args with a status; regionID, typeID and User-Agent are
\* required on both paths and 'api' on the forecast path only, so an OHLC
\* request lacking only 'api' does not fail in parse_args.
C9_MissingParameter ==
    \A r \in Reqs :
        req[r].path \in Paths =>
            IF RequiredParams(req[r].path) \subseteq req[r].present
            THEN exit[r] # "parse_args"
            ELSE /\ trace[r] = << >>
                 /\ Terminal(r) =>
                       /\ pc[r] = "Failed"
                       /\ exit[r] = "parse_args"
                       /\ Is4xx(resp[r].status)

----------------------------------------------------------------------------
FormatterFns == {"OHLC_to_format", "data_to_format"}

\* C10: on both paths, a request that got as far as its formatting
\* statement has passed the formatter the format named by its URL trailing
\* segment, and no formatter call carries any other format.
C10_FormatterGetsReturnType ==
    \A r \in Reqs :
        /\ \A i \in Idx(r) :
              trace[r][i].fn \in FormatterFns => trace[r][i].fmt = req[r].fmt
        /\ exit[r] \in {"format", "return"} =>
              \E i \in Idx(r) :
                  /\ trace[r][i].fn \in FormatterFns
                  /\ trace[r][i].fmt = req[r].fmt

----------------------------------------------------------------------------
\* C11: in every Responded state the payload's series is non-empty, and no
\* formatter or build_forecast call is ever handed an empty series: an empty
\* upstream result reaches the handler as a raised fetch failure.
C11_NonEmptySuccess ==
    \A r \in Reqs :
        /\ pc[r] = "Responded" => resp[r].body.payload.observed > 0
        /\ \A i \in Idx(r) :
              trace[r][i].fn \in FormatterFns \cup {"build_forecast"} =>
                  trace[r][i].input.observed > 0

\* An OHLC request answered with a formatted series.
C11_Witness ==
    \E r \in Reqs :
        /\ req[r].path = "OHLC"
        /\ pc[r] = "Responded"
        /\ resp[r].status = 200

----------------------------------------------------------------------------
ValidateCalls(r, catalog) ==
    {i \in Made(r, "validate_id") : trace[r][i].catalog = catalog}

\* C12: on both paths 'map_regions' is validated first and 'inventory_types'
\* second, each at most once; the type validation is made only after the
\* region validation returned, and once the region validation has raised the
\* request has ended in Failed through the validation except-branch with the
\* region failure's status, without any type validation.
C12_RegionThenType ==
    \A r \in Reqs :
        /\ Cardinality(ValidateCalls(r, "map_regions")) <= 1
        /\ Cardinality(ValidateCalls(r, "inventory_types")) <= 1
        /\ Made(r, "validate_id") =
               ValidateCalls(r, "map_regions") \cup ValidateCalls(r, "inventory_types")
        /\ \A i \in ValidateCalls(r, "inventory_types") :
              \E j \in ValidateCalls(r, "map_regions") : j < i /\ trace[r][j].out.ok
        /\ \A j \in ValidateCalls(r, "map_regions") :
              ~trace[r][j].out.ok =>
                  /\ ValidateCalls(r, "inventory_types") = {}
                  /\ pc[r] = "Failed"
                  /\ exit[r] = "validate"
                  /\ trace[r][j].out.err.cls = "ValidatorException" =>
                        /\ resp[r].status = trace[r][j].out.err.status
                        /\ resp[r].body.text = trace[r][j].out.err.message

\* A request whose region validation raised.
C12_Witness ==
    \E r \in Reqs : \E j \in ValidateCalls(r, "map_regions") :
        /\ ~trace[r][j].out.ok
        /\ pc[r] = "Failed"

----------------------------------------------------------------------------
\* C13: on the forecast path the archive source is called at most once and
\* the market source at most once; a market call is preceded by exactly one
\* archive call, which raised; when the archive call returned, the market
\* source is not called and build_forecast is given the archive series.
C13_SingleFallback ==
    \A r \in Reqs :
        req[r].path = "prophet" =>
            /\ Cardinality(Made(r, "fetch_extended_history")) <= 1
            /\ Cardinality(Made(r, "fetch_market_history")) <= 1
            /\ \A k \in Made(r, "fetch_market_history") :
                  /\ Cardinality(Made(r, "fetch_extended_history")) = 1
                  /\ \A j \in Made(r, "fetch_extended_history") :
                        j < k /\ ~trace[r][j].out.ok
            /\ MadeOk(r, "fetch_extended_history") # {} =>
                  /\ Made(r, "fetch_market_history") = {}
                  /\ \A b \in Made(r, "build_forecast") :
                        trace[r][b].input.source = "archive"

\* A forecast built from the archive series, the market source untouched.
C13_Witness ==
    \E r \in Reqs :
        /\ MadeOk(r, "fetch_extended_history") # {}
        /\ Made(r, "build_forecast") # {}

----------------------------------------------------------------------------
IsCollaboratorCall(e) == e.fn \in CollaboratorFns

\* The collaborator calls of request r, in the order they were made.
Calls(r) == SelectSeq(trace[r], IsCollaboratorCall)

FnAt(c) == [k \in DOMAIN c |-> c[k].fn]

IsPrefix(a, b) == Len(a) <= Len(b) /\ \A k \in DOMAIN a : a[k] = b[k]

\* The complete call sequences of a request that goes through every step.
StepOrders(path) ==
    IF path = "OHLC"
    THEN { <<"validate_id", "validate_id", "fetch_market_history", "OHLC_to_format">> }
    ELSE { <<"validate_id", "validate_id", "fetch_extended_history",
             "build_forecast", "data_to_format">>,
           <<"validate_id", "validate_id", "fetch_extended_history",
             "fetch_market_history", "build_forecast", "data_to_format">> }

\* C14: the collaborator calls of a request are a prefix of its path's step
\* order (validation, fetch, build_forecast on the forecast path only,
\* formatting), none repeated or skipped; a call is made only after parsing
\* succeeded and after the previous call returned, the market fallback after
\* a raised archive fetch being the one exception; the formatter is handed
\* the value the fetch (OHLC) or build_forecast (forecast) returned; and a
\* request in Responded has gone through every step.
C14_StepOrder ==
    \A r \in Reqs :
        LET c == Calls(r)
        IN /\ c # << >> =>
                 /\ \E order \in StepOrders(req[r].path) : IsPrefix(FnAt(c), order)
                 /\ exit[r] # "parse_args"
                 /\ args[r].regionID = req[r].regionID
           /\ \A k \in DOMAIN c :
                 k > 1 =>
                     /\ c[k].fn = "fetch_market_history" =>
                           IF req[r].path = "OHLC"
                           THEN c[k-1].out.ok
                           ELSE ~c[k-1].out.ok
                     /\ c[k].fn # "fetch_market_history" => c[k-1].out.ok
                     /\ c[k].fn \in FormatterFns \cup {"build_forecast"} =>
                           c[k].input = c[k-1].out.value
           /\ pc[r] = "Responded" =>
                 /\ FnAt(c) \in StepOrders(req[r].path)
                 /\ c[Len(c)].out.ok
                 /\ resp[r].body.payload = c[Len(c)].out.value

\* A request that went through all of its steps and was answered.
C14_Witness ==
    \E r \in Reqs :
        /\ pc[r] = "Responded"
        /\ Len(Calls(r)) = 4

----------------------------------------------------------------------------
----------------------------------------------------------------------------
\* C16: the (regionID, typeID) pair of the request is the pair every step
\* uses: the parsed arguments carry it, the region validator receives that
\* regionID, the type validator that typeID, and every data-source call,
\* the forecast fallback included, receives exactly that pair.
C16_SamePair ==
    \A r \in Reqs :
        /\ trace[r] # << >> =>
              /\ args[r].regionID = req[r].regionID
              /\ args[r].typeID = req[r].typeID
        /\ \A i \in ValidateCalls(r, "map_regions") :
              trace[r][i].ids = <<req[r].regionID>>
        /\ \A i \in ValidateCalls(r, "inventory_types") :
              trace[r][i].ids = <<req[r].typeID>>
        /\ \A i \in Idx(r) :
              trace[r][i].fn \in DataSourceFns =>
                  trace[r][i].ids = <<req[r].regionID, req[r].typeID>>

\* A forecast request that finished after calling both data sources.
C16_Witness ==
    \E r \in Reqs :
        /\ Terminal(r)
        /\ Made(r, "fetch_extended_history") # {}
        /\ Made(r, "fetch_market_history") # {}
        /\ req[r].regionID = 10000043

----------------------------------------------------------------------------
IsArchiveWarning(e) ==
    e.fn = "LOGGER.warning" /\ e.msg = "Unable to fetch data from archive"

\* C17: on the forecast path, every archive fetch that raised is followed
\* by a LOGGER.warning entry recording it, and that entry precedes the
\* fallback market fetch, whatever the request's later outcome.
C17_ArchiveFailureLogged ==
    \A r \in Reqs : \A i \in MadeFailed(r, "fetch_extended_history") :
        /\ \E j \in Idx(r) : j > i /\ IsArchiveWarning(trace[r][j])
        /\ \A k \in Made(r, "fetch_market_history") :
              \E j \in Idx(r) : i < j /\ j < k /\ IsArchiveWarning(trace[r][j])

\* The fallback market fetch attempted after a raised archive fetch.
C17_Witness ==
    \E r \in Reqs :
        /\ MadeFailed(r, "fetch_extended_history") # {}
        /\ Made(r, "fetch_market_history") # {}
        /\ \E j \in Idx(r) : IsArchiveWarning(trace[r][j])

----------------------------------------------------------------------------
\* C18: every request handled by get() has exactly one collect_stats entry
\* in its trace, made with the parsed args (and the hook leaves the
\* response as it was).
C18_StatsCollected ==
    \A r \in Reqs :
        (Terminal(r) /\ exit[r] # "call") =>
            /\ Cardinality(Made(r, "collect_stats")) = 1
            /\ \A i \in Made(r, "collect_stats") :
                  trace[r][i].ids = <<args[r].regionID, args[r].typeID>>

----------------------------------------------------------------------------
\* Everything the model keeps for request q.
StateOf(q) == <<pc[q], req[q], args[q], data[q], trace[q], resp[q], exc[q], exit[q]>>

\* A step changes the state of at most one request.
OneRequestPerStep ==
    \E r \in Reqs : \A q \in Reqs \ {r} : StateOf(q)' = StateOf(q)

\* The calls of request r carry r's own ids and format.
OwnArguments(r) ==
    \A i \in Idx(r) :
        /\ trace[r][i].fn = "validate_id" =>
              trace[r][i].ids \in {<<req[r].regionID>>, <<req[r].typeID>>}
        /\ trace[r][i].fn \in DataSourceFns =>
              trace[r][i].ids = <<req[r].regionID, req[r].typeID>>
        /\ trace[r][i].fn \in FormatterFns => trace[r][i].fmt = req[r].fmt

\* Two finished requests with the same parameters whose collaborator calls
\* came back with the same results have the same outcome.
SameInputsSameOutcome(r, q) ==
    ( /\ Terminal(r) /\ Terminal(q)
      /\ req[r] = req[q]
      /\ trace[r] = trace[q] )
    => /\ pc[r] = pc[q]
       /\ resp[r] = resp[q]
       /\ exc[r] = exc[q]
       /\ exit[r] = exit[q]

\* C19: with several requests in flight and their steps interleaved in any
\* order, every step reads and writes the state of one request only, each
\* request's collaborator calls carry its own arguments, and its outcome is
\* determined by its own parameters and the results of its own calls.
C19_Isolation ==
    /\ [][OneRequestPerStep]_vars
    /\ [](\A r \in Reqs : OwnArguments(r))
    /\ [](\A r, q \in Reqs : SameInputsSameOutcome(r, q))

\* Two requests for different regions, both in the middle of their handlers.
C19_Witness ==
    \E r, q \in Reqs :
        /\ req[r].regionID # req[q].regionID
        /\ pc[r] \in {"FetchMarket", "FetchArchive", "FetchFallback"}
        /\ pc[q] \in {"ValidateType", "BuildingForecast"}
        /\ trace[r] # << >>
        /\ trace[q] # << >>

----------------------------------------------------------------------------
\* C20: a request that has been received eventually reaches a terminal
\* state, even when a blocking collaborator call never returns.
C20_EventuallyTerminal ==
    \A r \in Reqs : (pc[r] # "Idle") ~> Terminal(r)

====
